---------------------------- MODULE Spec2Model ----------------------------
(***************************************************************************)
(* A model of winapiwrapper::process::Process (src/src/winapiwrapper/      *)
(* process.rs): a value holding one OS process HANDLE, its constructors    *)
(* (from_pid, from_current, from_handle), its methods (close, pid,         *)
(* snapshot, main_thread, write_memory, read_memory, virtual_protect,      *)
(* handle) and its Drop.                                                   *)
(*                                                                         *)
(* The operating system is the environment.  It is modelled by the state   *)
(* the Win32 calls of process.rs read and change: the calling process's    *)
(* handle table, the system's threads, and each process's memory and page  *)
(* protection.  Snapshot, Thread, ProcessAccess, ProtectFlag and           *)
(* VirtualMemory are collaborators defined outside process.rs; they are    *)
(* modelled from the specification's description of them.                  *)
(*                                                                         *)
(* Process holds a raw pointer (HANDLE), so it is neither Send nor Sync:   *)
(* all calls on Process values come from one thread, one at a time.  Each  *)
(* method is one atomic action; the environment moves between calls.       *)
(***************************************************************************)
EXTENDS Integers, Sequences, FiniteSets, TLC

\* ------------------------------------------------------------------ bounds
MaxProcs == 2       \* Process values the caller constructs
MaxHandles == 2     \* handle values the OS hands out (it reuses closed ones)
MaxCloses == 2      \* explicit close() calls per Process value
MaxThreads == 3     \* threads in the system
MemSize == 2        \* bytes of each process's mapped memory: addresses 1..MemSize
MaxLen == 2         \* longest data / buffer slice passed to write/read

\* ------------------------------------------------------- program constants
NULL == 0                      \* the null HANDLE / null address / failed BOOL
CurrentProcess == -1           \* GetCurrentProcess(): the pseudo-handle
SelfPid == 1                   \* process id of the calling process

ProcIds == 1..MaxProcs
HandleVals == 1..MaxHandles
Pids == {SelfPid, 2}           \* the caller and one foreign process
ThreadIds == 1..MaxThreads
Addresses == 0..MemSize
Bytes == {0, 1}
Slices == UNION {[1..k -> Bytes] : k \in 0..MaxLen}   \* &[u8] of length <= MaxLen

\* ProcessAccess: a bit set of rights, here the set of the rights' names.
Rights == {"QUERY_INFORMATION", "VM_OPERATION", "VM_READ", "VM_WRITE"}
AccessMasks == {Rights, {"VM_OPERATION", "VM_WRITE"}}

\* ProtectFlag bits: PAGE_READONLY 0x02, PAGE_READWRITE 0x04.
Protections == {2, 4}
Readable == {2, 4}
Writable == {4}

VARIABLES
    table,      \* OS: the calling process's handle table
    thrAlive,   \* OS: which threads of the system exist
    thrOwner,   \* OS: each thread's owning process id
    mem,        \* OS: each process's memory
    prot,       \* OS: each process's page protection
    procs,      \* the caller's Process values
    region,     \* the caller's VirtualMemory values, one per Process at most
    lastOp,     \* history: the last call, its inputs, result and OS calls
    panicked,   \* the program has terminated by a panic
    pidSeen     \* history: per Process, the first pid() result since it was
                \* constructed or last closed, and whether a call followed it

vars == <<table, thrAlive, thrOwner, mem, prot, procs, region, lastOp, panicked,
         pidSeen>>

\* -------------------------------------------------------------- Result<T, Error>
\* Error carries only a message (Error::new(String)).
Ok(v) == [ok |-> TRUE, val |-> v, err |-> ""]
Err(msg) == [ok |-> FALSE, val |-> 0, err |-> msg]

\* ------------------------------------------------------------------ OS model
Free == [pid |-> 0, access |-> {}]

\* A handle value that names an open entry of the handle table.
IsOpen(h) == h \in HandleVals /\ table[h] # Free

\* The process a handle refers to (0: none); the pseudo-handle refers to the caller.
Target(h) ==
    IF h = CurrentProcess THEN SelfPid
    ELSE IF IsOpen(h) THEN table[h].pid
    ELSE 0

\* The rights a handle carries; the pseudo-handle carries all.
Granted(h) ==
    IF h = CurrentProcess THEN Rights
    ELSE IF IsOpen(h) THEN table[h].access
    ELSE {}

\* A process exists while it has a thread.
Alive(p) == \E t \in ThreadIds : thrAlive[t] /\ thrOwner[t] = p

\* OpenProcess(access, inherit, pid): a new handle to an existing process, in
\* any free slot of the table (a closed handle's value is handed out again),
\* or NULL.
OpenProcess(access, p, h) ==
    IF Alive(p)
    THEN /\ h \in HandleVals
         /\ table[h] = Free
         /\ table' = [table EXCEPT ![h] = [pid |-> p, access |-> access]]
    ELSE /\ h = NULL
         /\ table' = table

\* CloseHandle(h): closes an open handle and returns nonzero; returns 0 for a
\* value that names no open handle.  On the pseudo-handle it has no effect and
\* the value it returns is the OS's choice.
CloseHandle(h, ret) ==
    IF IsOpen(h)
    THEN /\ ret = 1
         /\ table' = [table EXCEPT ![h] = Free]
    ELSE /\ ret \in (IF h = CurrentProcess THEN {0, 1} ELSE {0})
         /\ table' = table

\* A GetProcessId that cannot resolve the id of a process that has exited.
GetProcessId_live(h) ==
    IF Target(h) # 0 /\ Alive(Target(h)) /\ "QUERY_INFORMATION" \in Granted(h)
    THEN Target(h) ELSE 0

\* GetProcessId(h): the id of the process h refers to, 0 on failure (an
\* invalid handle, or one without the query right).
GetProcessId(h) ==
    IF Target(h) # 0 /\ "QUERY_INFORMATION" \in Granted(h) THEN Target(h) ELSE 0

\* ------------------------------------------------------------------ Process
Unborn == [st |-> "unborn", handle |-> NULL, origin |-> "none",
           explicit |-> 0, closed |-> FALSE]

Live(p) == procs[p].st = "live" /\ ~panicked

\* impl HandleOwner for Process: from_handle stores the handle as given.
from_handle(h, how) ==
    [st |-> "live", handle |-> h, origin |-> how, explicit |-> 0, closed |-> FALSE]

\* impl HandleOwner for Process: handle(&self) returns the stored handle.
handle(p) == procs[p].handle

\* The call record every operation leaves in lastOp.
Call(name, p, res, calls) ==
    [op |-> name, proc |-> p, closedBefore |-> procs[p].closed,
     res |-> res, calls |-> calls]

\* History kept for pid(): p's first pid() result is forgotten when p's handle
\* is closed; a later call of pid, snapshot, main_thread, write_memory,
\* read_memory or virtual_protect on p is noted as having come in between.
Forgotten(p) == [pidSeen EXCEPT ![p] = <<>>]

Between(p) ==
    [pidSeen EXCEPT ![p] = IF @ = <<>> THEN @ ELSE <<[@[1] EXCEPT !.between = TRUE]>>]

FirstSeen(p, res) ==
    [pidSeen EXCEPT ![p] = IF @ = <<>> THEN <<[res |-> res, between |-> FALSE]>>
                           ELSE <<[@[1] EXCEPT !.between = TRUE]>>]

\* from_pid without its null test: whatever OpenProcess returned is wrapped.
from_pid_unchecked(p, pid_arg, access) ==
    /\ procs[p].st = "unborn"
    /\ ~panicked
    /\ \E h \in HandleVals \cup {NULL} :
          /\ OpenProcess(access, pid_arg, h)
          /\ procs' = [procs EXCEPT ![p] = from_handle(h, "pid")]
          /\ lastOp' = Call("from_pid", p, Ok(h), <<"OpenProcess">>)
    /\ UNCHANGED <<thrAlive, thrOwner, mem, prot, region, panicked, pidSeen>>

\* Process::from_pid: OpenProcess; a NULL handle is an error and no Process.
from_pid(p, pid_arg, access) ==
    /\ procs[p].st = "unborn"
    /\ ~panicked
    /\ \E h \in HandleVals \cup {NULL} :
          /\ OpenProcess(access, pid_arg, h)
          /\ IF h = NULL
             THEN /\ procs' = procs
                  /\ lastOp' = Call("from_pid", p,
                                    Err("OpenProcess returned NULL"), <<"OpenProcess">>)
             ELSE /\ procs' = [procs EXCEPT ![p] = from_handle(h, "pid")]
                  /\ lastOp' = Call("from_pid", p, Ok(h), <<"OpenProcess">>)
    /\ UNCHANGED <<thrAlive, thrOwner, mem, prot, region, panicked, pidSeen>>

\* Process::from_current: wraps the pseudo-handle; GetCurrentProcess cannot fail.
from_current(p) ==
    /\ procs[p].st = "unborn"
    /\ ~panicked
    /\ procs' = [procs EXCEPT ![p] = from_handle(CurrentProcess, "current")]
    /\ lastOp' = Call("from_current", p, Ok(CurrentProcess), <<"GetCurrentProcess">>)
    /\ UNCHANGED <<table, thrAlive, thrOwner, mem, prot, region, panicked, pidSeen>>

\* The body of Process::close(&self): CloseHandle on the stored handle, which
\* stays stored; the result is Ok iff CloseHandle returned nonzero.
close_body(p, ok) ==
    \E ret \in {0, 1} :
        /\ CloseHandle(procs[p].handle, ret)
        /\ ok = (ret # 0)

close_result(ok) == IF ok THEN Ok(0) ELSE Err("CloseHandle failed")

\* An explicit call of Process::close.
close(p) ==
    /\ Live(p)
    /\ procs[p].explicit < MaxCloses
    /\ \E ok \in BOOLEAN :
          /\ close_body(p, ok)
          /\ procs' = [procs EXCEPT ![p].explicit = @ + 1,
                                    ![p].closed = @ \/ (ok /\ procs[p].origin = "pid")]
          /\ lastOp' = Call("close", p, close_result(ok), <<"CloseHandle">>)
    /\ pidSeen' = Forgotten(p)
    /\ UNCHANGED <<thrAlive, thrOwner, mem, prot, region, panicked>>

\* A Drop that discards the result of close: let _ = self.close().
drop_ignoring(p) ==
    /\ Live(p)
    /\ region[p] # "live"
    /\ \E ok \in BOOLEAN :
          /\ close_body(p, ok)
          /\ procs' = [procs EXCEPT ![p].st = "dropped"]
          /\ lastOp' = Call("drop", p, close_result(ok), <<"CloseHandle">>)
    /\ pidSeen' = Forgotten(p)
    /\ UNCHANGED <<thrAlive, thrOwner, mem, prot, region, panicked>>

\* impl Drop for Process: self.close().unwrap().  The borrow checker lets a
\* Process go out of scope only when nothing borrows it any more.
drop(p) ==
    /\ Live(p)
    /\ region[p] # "live"
    /\ \E ok \in BOOLEAN :
          /\ close_body(p, ok)
          /\ procs' = [procs EXCEPT ![p].st = "dropped"]
          /\ panicked' = ~ok
          /\ lastOp' = Call("drop", p, close_result(ok), <<"CloseHandle">>)
    /\ pidSeen' = Forgotten(p)
    /\ UNCHANGED <<thrAlive, thrOwner, mem, prot, region>>

\* A call of the handle() accessor: it returns the stored handle, unchecked.
handle_call(p) ==
    /\ Live(p)
    /\ lastOp' = Call("handle", p, Ok(handle(p)), <<>>)
    /\ UNCHANGED <<table, thrAlive, thrOwner, mem, prot, procs, region, panicked, pidSeen>>

\* A pid that takes the handle out of the Process, leaving null behind.
pid_taking(p) ==
    /\ Live(p)
    /\ LET id == GetProcessId(procs[p].handle)
           res == IF id = 0 THEN Err("GetProcessId returned NULL") ELSE Ok(id)
       IN  /\ lastOp' = Call("pid", p, res, <<"GetProcessId">>)
                          @@ [first |-> pidSeen[p]]
           /\ pidSeen' = FirstSeen(p, res)
    /\ procs' = [procs EXCEPT ![p].handle = NULL]
    /\ UNCHANGED <<table, thrAlive, thrOwner, mem, prot, region, panicked>>

\* Process::pid: GetProcessId on the stored handle; 0 is an error.
pid(p) ==
    /\ Live(p)
    /\ LET id == GetProcessId(procs[p].handle)
           res == IF id = 0 THEN Err("GetProcessId returned NULL") ELSE Ok(id)
       IN  /\ lastOp' = Call("pid", p, res, <<"GetProcessId">>)
                          @@ [first |-> pidSeen[p]]
           /\ pidSeen' = FirstSeen(p, res)
    /\ UNCHANGED <<table, thrAlive, thrOwner, mem, prot, procs, region, panicked>>

\* Process::snapshot: Snapshot::from_pid(self.pid()?, flags).  Snapshot is
\* defined outside process.rs: creating one can fail, and a thread snapshot
\* lists the threads of the whole system as of its creation.
SnapshotEntries == SelectSeq([t \in ThreadIds |-> [tid |-> t, owner |-> thrOwner[t]]],
                             LAMBDA e : thrAlive[e.tid])

snapshot(p) ==
    /\ Live(p)
    /\ LET id == GetProcessId(procs[p].handle) IN
       IF id = 0
       THEN lastOp' = Call("snapshot", p, Err("GetProcessId returned NULL"),
                           <<"GetProcessId">>)
       ELSE \E created \in BOOLEAN :
               lastOp' = Call("snapshot", p,
                              IF created THEN Ok(Len(SnapshotEntries))
                              ELSE Err("CreateToolhelp32Snapshot failed"),
                              <<"GetProcessId", "CreateToolhelp32Snapshot">>)
    /\ pidSeen' = Between(p)
    /\ UNCHANGED <<table, thrAlive, thrOwner, mem, prot, procs, region, panicked>>

\* The loop without its owner test: the first entry, whoever owns it.
first_entry(entries, id, i) ==
    IF i > Len(entries) THEN 0 ELSE i

\* The loop comparing the entry's thread id, not its owner, with the pid.
RECURSIVE first_by_thread_id(_, _, _)
first_by_thread_id(entries, id, i) ==
    IF i > Len(entries) THEN 0
    ELSE IF id = entries[i].tid THEN i
    ELSE first_by_thread_id(entries, id, i + 1)

\* The for loop of main_thread: the index of the first entry from i on whose
\* th32OwnerProcessID is id, 0 when there is none.
RECURSIVE first_owned(_, _, _)
first_owned(entries, id, i) ==
    IF i > Len(entries) THEN 0
    ELSE IF id = entries[i].owner THEN i
    ELSE first_owned(entries, id, i + 1)

\* A main_thread whose loop goes on after a thread that cannot be opened: it
\* takes the next entry of the process, or returns none when there is none.
main_thread_trying_next(p) ==
    /\ Live(p)
    /\ LET h == procs[p].handle
           zero == Target(h) # 0 /\ ~Alive(Target(h))
           id1 == GetProcessId(h)
           id2 == GetProcessId(h)
           entries == SnapshotEntries
           i == first_owned(entries, id2, 1)
           rec(res, calls, got, opens) ==
               Call("main_thread", p, res, calls)
                 @@ [zeroThreads |-> zero, snapOk |-> got,
                     snap |-> IF got THEN entries ELSE <<>>, id |-> id2,
                     opens |-> opens]
       IN
       IF id1 = 0
       THEN lastOp' = rec(Err("GetProcessId returned NULL"), <<"GetProcessId">>,
                          FALSE, <<>>)
       ELSE \E created \in BOOLEAN :
              IF ~created
              THEN lastOp' = rec(Err("CreateToolhelp32Snapshot failed"),
                                 <<"GetProcessId", "CreateToolhelp32Snapshot">>,
                                 FALSE, <<>>)
              ELSE IF id2 = 0
              THEN lastOp' = rec(Err("GetProcessId returned NULL"),
                                 <<"GetProcessId", "CreateToolhelp32Snapshot",
                                   "GetProcessId">>, FALSE, <<>>)
              ELSE IF i = 0
              THEN lastOp' = rec(Ok(0),
                                 <<"GetProcessId", "CreateToolhelp32Snapshot",
                                   "GetProcessId">>, TRUE, <<>>)
              ELSE \E opened \in BOOLEAN :
                     LET j == first_owned(entries, id2, i + 1) IN
                     IF opened
                     THEN lastOp' = rec(Ok(entries[i].tid),
                                        <<"GetProcessId", "CreateToolhelp32Snapshot",
                                          "GetProcessId", "OpenThread">>, TRUE,
                                        <<[tid |-> entries[i].tid, ok |-> TRUE]>>)
                     ELSE IF j = 0
                     THEN lastOp' = rec(Ok(0),
                                        <<"GetProcessId", "CreateToolhelp32Snapshot",
                                          "GetProcessId", "OpenThread">>, TRUE,
                                        <<[tid |-> entries[i].tid, ok |-> FALSE]>>)
                     ELSE lastOp' = rec(Ok(entries[j].tid),
                                        <<"GetProcessId", "CreateToolhelp32Snapshot",
                                          "GetProcessId", "OpenThread", "OpenThread">>,
                                        TRUE,
                                        <<[tid |-> entries[i].tid, ok |-> FALSE],
                                          [tid |-> entries[j].tid, ok |-> TRUE]>>)
    /\ pidSeen' = Between(p)
    /\ UNCHANGED <<table, thrAlive, thrOwner, mem, prot, procs, region, panicked>>

\* Process::main_thread.  Option<Thread> is the thread id, 0 for None.
\* Thread::from_id is defined outside process.rs: opening a thread can fail
\* (the thread has exited since the snapshot, or access is denied).  opens is
\* the Thread::from_id calls made, each with the thread id and its outcome.
main_thread(p) ==
    /\ Live(p)
    /\ LET h == procs[p].handle
           zero == Target(h) # 0 /\ ~Alive(Target(h))
           id1 == GetProcessId(h)
           id2 == GetProcessId(h)
           entries == SnapshotEntries
           i == first_owned(entries, id2, 1)
           rec(res, calls, got, opens) ==
               Call("main_thread", p, res, calls)
                 @@ [zeroThreads |-> zero, snapOk |-> got,
                     snap |-> IF got THEN entries ELSE <<>>, id |-> id2,
                     opens |-> opens]
       IN
       IF id1 = 0
       THEN lastOp' = rec(Err("GetProcessId returned NULL"), <<"GetProcessId">>,
                          FALSE, <<>>)
       ELSE \E created \in BOOLEAN :
              IF ~created
              THEN lastOp' = rec(Err("CreateToolhelp32Snapshot failed"),
                                 <<"GetProcessId", "CreateToolhelp32Snapshot">>,
                                 FALSE, <<>>)
              ELSE IF id2 = 0
              THEN lastOp' = rec(Err("GetProcessId returned NULL"),
                                 <<"GetProcessId", "CreateToolhelp32Snapshot",
                                   "GetProcessId">>, FALSE, <<>>)
              ELSE IF i = 0
              THEN lastOp' = rec(Ok(0),
                                 <<"GetProcessId", "CreateToolhelp32Snapshot",
                                   "GetProcessId">>, TRUE, <<>>)
              ELSE \E opened \in BOOLEAN :
                     lastOp' = rec(IF opened THEN Ok(entries[i].tid)
                                   ELSE Err("OpenThread returned NULL"),
                                   <<"GetProcessId", "CreateToolhelp32Snapshot",
                                     "GetProcessId", "OpenThread">>, TRUE,
                                   <<[tid |-> entries[i].tid, ok |-> opened]>>)
    /\ pidSeen' = Between(p)
    /\ UNCHANGED <<table, thrAlive, thrOwner, mem, prot, procs, region, panicked>>

\* ---------------------------------------------------------- OS: memory calls
\* The range [a, a + n) lies in the mapped memory of a process.
Mapped(a, n) == a >= 1 /\ a + n - 1 <= MemSize

\* Memory m with the first n bytes of data stored at address a.
Stored(m, a, data, n) ==
    [x \in 1..MemSize |-> IF x >= a /\ x < a + n THEN data[x - a + 1] ELSE m[x]]

\* A buffer with its first n bytes replaced by the bytes of m at address a.
Loaded(m, a, buffer, n) ==
    [x \in 1..Len(buffer) |-> IF x <= n THEN m[a + x - 1] ELSE buffer[x]]

\* WriteProcessMemory(h, a, data, len, &n) needs the write and operation
\* rights, a live target and a mapped, writable range.
CanWrite(h, a, len) ==
    /\ Target(h) # 0
    /\ Alive(Target(h))
    /\ {"VM_WRITE", "VM_OPERATION"} \subseteq Granted(h)
    /\ Mapped(a, len)
    /\ prot[Target(h)] \in Writable

\* What WriteProcessMemory returns and leaves in memory when the count the OS
\* reports is n: 0 and nothing written when it cannot write.
WriteProcessMemory(h, a, data, n) ==
    IF CanWrite(h, a, Len(data))
    THEN [ret |-> 1, n |-> n,
          mem |-> [mem EXCEPT ![Target(h)] = Stored(mem[Target(h)], a, data, n)]]
    ELSE [ret |-> 0, n |-> 0, mem |-> mem]

\* ReadProcessMemory(h, a, buffer, len, &n) needs the read right, a live
\* target and a mapped, readable range.
CanRead(h, a, len) ==
    /\ Target(h) # 0
    /\ Alive(Target(h))
    /\ "VM_READ" \in Granted(h)
    /\ Mapped(a, len)
    /\ prot[Target(h)] \in Readable

\* What ReadProcessMemory returns and leaves in the buffer when the count the
\* OS reports is n: 0 and the buffer untouched when it cannot read.
ReadProcessMemory(h, a, buffer, n) ==
    IF CanRead(h, a, Len(buffer))
    THEN [ret |-> 1, n |-> n, buffer |-> Loaded(mem[Target(h)], a, buffer, n)]
    ELSE [ret |-> 0, n |-> 0, buffer |-> buffer]

\* VirtualProtectEx(h, a, size, new, &old) needs the operation right, a live
\* target and a mapped, non-empty range.  The model maps one page per process,
\* so a range lies in one page.
CanProtect(h, a, size) ==
    /\ Target(h) # 0
    /\ Alive(Target(h))
    /\ "VM_OPERATION" \in Granted(h)
    /\ size >= 1
    /\ Mapped(a, size)

\* What VirtualProtectEx returns, leaves in old and leaves as the protection:
\* on failure 0, old as it was and the protection as it was.
VirtualProtectEx(h, a, size, new, old) ==
    IF CanProtect(h, a, size)
    THEN [ret |-> 1, old |-> prot[Target(h)],
          prot |-> [prot EXCEPT ![Target(h)] = new]]
    ELSE [ret |-> 0, old |-> old, prot |-> prot]

\* -------------------------------------------------------- Process: memory
\* History: the data of the write_memory by p at this address that this call
\* follows immediately and that wrote all its Len(buffer) bytes, if there is one.
JustWritten(p, buffer, address) ==
    IF /\ lastOp.op = "write_memory"
       /\ lastOp.proc = p
       /\ lastOp.addr = address
       /\ Len(lastOp.data) = Len(buffer)
       /\ lastOp.res.ok
       /\ lastOp.res.val = Len(lastOp.data)
    THEN <<lastOp.data>>
    ELSE <<>>

\* write_memory without its null-address check.
write_memory_unchecked(p, data, address) ==
    /\ Live(p)
    /\ \E n \in 0..Len(data) :
          LET os == WriteProcessMemory(procs[p].handle, address, data, n) IN
          /\ mem' = os.mem
          /\ lastOp' = Call("write_memory", p,
                            IF os.ret = 0 THEN Err("WriteProcessMemory failed")
                            ELSE Ok(os.n),
                            <<"WriteProcessMemory">>)
                         @@ [addr |-> address, data |-> data,
                             os |-> <<[ret |-> os.ret, n |-> os.n, len |-> Len(data)]>>]
    /\ pidSeen' = Between(p)
    /\ UNCHANGED <<table, thrAlive, thrOwner, prot, procs, region, panicked>>

\* write_memory returning data.len() whenever the OS reports success.
write_memory_len(p, data, address) ==
    /\ Live(p)
    /\ IF address = 0
       THEN /\ lastOp' = Call("write_memory", p, Err("Address to write to is null"), <<>>)
                           @@ [addr |-> address, data |-> data, os |-> <<>>]
            /\ mem' = mem
       ELSE \E n \in 0..Len(data) :
               LET os == WriteProcessMemory(handle(p), address, data, n)
                   ret == os.ret
                   num_bytes_written == os.n
               IN  /\ mem' = os.mem
                   /\ lastOp' = Call("write_memory", p,
                                     IF ret = 0 THEN Err("WriteProcessMemory failed")
                                     ELSE Ok(Len(data)),
                                     <<"WriteProcessMemory">>)
                                  @@ [addr |-> address, data |-> data,
                                      os |-> <<[ret |-> ret, n |-> num_bytes_written,
                                                len |-> Len(data)]>>]
    /\ pidSeen' = Between(p)
    /\ UNCHANGED <<table, thrAlive, thrOwner, prot, procs, region, panicked>>

\* write_memory with an empty-input check like read_memory's: empty data is
\* rejected before the OS call.
write_memory_rejecting_empty(p, data, address) ==
    /\ Live(p)
    /\ IF address = 0 \/ data = <<>>
       THEN /\ lastOp' = Call("write_memory", p, Err("Address to write to is null"), <<>>)
                           @@ [addr |-> address, data |-> data, os |-> <<>>]
            /\ mem' = mem
       ELSE \E n \in 0..Len(data) :
               LET os == WriteProcessMemory(handle(p), address, data, n)
                   ret == os.ret
                   num_bytes_written == os.n
               IN  /\ mem' = os.mem
                   /\ lastOp' = Call("write_memory", p,
                                     IF ret = 0 THEN Err("WriteProcessMemory failed")
                                     ELSE Ok(num_bytes_written),
                                     <<"WriteProcessMemory">>)
                                  @@ [addr |-> address, data |-> data,
                                      os |-> <<[ret |-> ret, n |-> num_bytes_written,
                                                len |-> Len(data)]>>]
    /\ pidSeen' = Between(p)
    /\ UNCHANGED <<table, thrAlive, thrOwner, prot, procs, region, panicked>>

\* Process::write_memory.  os is what the OS call was asked and what it reported.
write_memory(p, data, address) ==
    /\ Live(p)
    /\ IF address = 0
       THEN /\ lastOp' = Call("write_memory", p, Err("Address to write to is null"), <<>>)
                           @@ [addr |-> address, data |-> data, os |-> <<>>]
            /\ mem' = mem
       ELSE \E n \in 0..Len(data) :
               LET os == WriteProcessMemory(handle(p), address, data, n)
                   ret == os.ret
                   num_bytes_written == os.n
               IN  /\ mem' = os.mem
                   /\ lastOp' = Call("write_memory", p,
                                     IF ret = 0 THEN Err("WriteProcessMemory failed")
                                     ELSE Ok(num_bytes_written),
                                     <<"WriteProcessMemory">>)
                                  @@ [addr |-> address, data |-> data,
                                      os |-> <<[ret |-> ret, n |-> num_bytes_written,
                                                len |-> Len(data)]>>]
    /\ pidSeen' = Between(p)
    /\ UNCHANGED <<table, thrAlive, thrOwner, prot, procs, region, panicked>>

\* read_memory handing the OS a copy of the buffer: the count is returned and
\* the caller's buffer is left as it was.
read_memory_copy(p, buffer, address) ==
    /\ Live(p)
    /\ LET rec(res, calls, os) ==
               Call("read_memory", p, res, calls)
                 @@ [addr |-> address, len |-> Len(buffer), buf |-> buffer,
                     after |-> JustWritten(p, buffer, address), os |-> os]
       IN
       IF address = 0
       THEN lastOp' = rec(Err("Address to read from is null"), <<>>, <<>>)
       ELSE IF buffer = <<>>
       THEN lastOp' = rec(Err("Buffer length is zero"), <<>>, <<>>)
       ELSE \E n \in 0..Len(buffer) :
               LET os == ReadProcessMemory(procs[p].handle, address, buffer, n) IN
               lastOp' = rec(IF os.ret = 0 THEN Err("ReadProcessMemory failed")
                             ELSE Ok(os.n),
                             <<"ReadProcessMemory">>,
                             <<[ret |-> os.ret, n |-> os.n, len |-> Len(buffer)]>>)
    /\ pidSeen' = Between(p)
    /\ UNCHANGED <<table, thrAlive, thrOwner, mem, prot, procs, region, panicked>>

\* read_memory without its empty-buffer check, like write_memory.
read_memory_any_length(p, buffer, address) ==
    /\ Live(p)
    /\ LET rec(res, calls, out, os) ==
               Call("read_memory", p, res, calls)
                 @@ [addr |-> address, len |-> Len(buffer), buf |-> out,
                     after |-> JustWritten(p, buffer, address), os |-> os]
       IN
       IF address = 0
       THEN lastOp' = rec(Err("Address to read from is null"), <<>>, buffer, <<>>)
       ELSE \E n \in 0..Len(buffer) :
               LET os == ReadProcessMemory(handle(p), address, buffer, n)
                   ret == os.ret
                   num_bytes_read == os.n
               IN  lastOp' = rec(IF ret = 0 THEN Err("ReadProcessMemory failed")
                                 ELSE Ok(num_bytes_read),
                                 <<"ReadProcessMemory">>, os.buffer,
                                 <<[ret |-> ret, n |-> num_bytes_read,
                                    len |-> Len(buffer)]>>)
    /\ pidSeen' = Between(p)
    /\ UNCHANGED <<table, thrAlive, thrOwner, mem, prot, procs, region, panicked>>

\* Process::read_memory.  buf is the buffer as the call leaves it; os is what
\* the OS call was asked and what it reported.
read_memory(p, buffer, address) ==
    /\ Live(p)
    /\ LET rec(res, calls, out, os) ==
               Call("read_memory", p, res, calls)
                 @@ [addr |-> address, len |-> Len(buffer), buf |-> out,
                     after |-> JustWritten(p, buffer, address), os |-> os]
       IN
       IF address = 0
       THEN lastOp' = rec(Err("Address to read from is null"), <<>>, buffer, <<>>)
       ELSE IF buffer = <<>>
       THEN lastOp' = rec(Err("Buffer length is zero"), <<>>, buffer, <<>>)
       ELSE \E n \in 0..Len(buffer) :
               LET os == ReadProcessMemory(handle(p), address, buffer, n)
                   ret == os.ret
                   num_bytes_read == os.n
               IN  lastOp' = rec(IF ret = 0 THEN Err("ReadProcessMemory failed")
                                 ELSE Ok(num_bytes_read),
                                 <<"ReadProcessMemory">>, os.buffer,
                                 <<[ret |-> ret, n |-> num_bytes_read,
                                    len |-> Len(buffer)]>>)
    /\ pidSeen' = Between(p)
    /\ UNCHANGED <<table, thrAlive, thrOwner, mem, prot, procs, region, panicked>>

\* History: the protection in effect before the successful virtual_protect by
\* p on this range that this call follows immediately and whose returned value
\* this call passes, if there is one.
JustProtected(p, address, size, protect) ==
    IF /\ lastOp.op = "virtual_protect"
       /\ lastOp.proc = p
       /\ lastOp.addr = address
       /\ lastOp.size = size
       /\ lastOp.res.ok
       /\ lastOp.res.val = protect
    THEN <<lastOp.before>>
    ELSE <<>>

\* virtual_protect returning old_protect without looking at ret.
virtual_protect_unchecked(p, address, size, protect) ==
    /\ Live(p)
    /\ LET os == VirtualProtectEx(procs[p].handle, address, size, protect, 0)
           t == Target(procs[p].handle)
       IN  /\ prot' = os.prot
           /\ lastOp' = Call("virtual_protect", p, Ok(os.old), <<"VirtualProtectEx">>)
                          @@ [addr |-> address, size |-> size, new |-> protect,
                              ret |-> os.ret, target |-> t,
                              before |-> IF t = 0 THEN 0 ELSE prot[t],
                              after |-> JustProtected(p, address, size, protect)]
    /\ pidSeen' = Between(p)
    /\ UNCHANGED <<table, thrAlive, thrOwner, mem, procs, region, panicked>>

\* Process::virtual_protect.  before is the protection of the target's page
\* when the call is made (0: the handle refers to no process).
virtual_protect(p, address, size, protect) ==
    /\ Live(p)
    /\ LET os == VirtualProtectEx(procs[p].handle, address, size, protect, 0)
           ret == os.ret
           old_protect == os.old
           t == Target(procs[p].handle)
       IN  /\ prot' = os.prot
           /\ lastOp' = Call("virtual_protect", p,
                             IF ret # 0 THEN Ok(old_protect)
                             ELSE Err("VirtualProtectEx returned NULL"),
                             <<"VirtualProtectEx">>)
                          @@ [addr |-> address, size |-> size, new |-> protect,
                              ret |-> ret, target |-> t,
                              before |-> IF t = 0 THEN 0 ELSE prot[t],
                              after |-> JustProtected(p, address, size, protect)]
    /\ pidSeen' = Between(p)
    /\ UNCHANGED <<table, thrAlive, thrOwner, mem, procs, region, panicked>>

\* --------------------------------------------------------- VirtualMemory
\* VirtualMemory is defined outside process.rs.  A region is allocated through
\* a shared borrow of its Process (allocate(process: &Process, ..)) and holds
\* that borrow until it goes out of scope, when it frees itself (free_on_drop)
\* and a failed free is fatal.
RegionCallOk(h) ==
    Target(h) # 0 /\ Alive(Target(h)) /\ "VM_OPERATION" \in Granted(h)

allocate(p) ==
    /\ Live(p)
    /\ region[p] = "none"
    /\ IF RegionCallOk(handle(p))
       THEN /\ region' = [region EXCEPT ![p] = "live"]
            /\ lastOp' = Call("allocate", p, Ok(1), <<"VirtualAllocEx">>)
       ELSE /\ region' = region
            /\ lastOp' = Call("allocate", p, Err("VirtualAllocEx returned NULL"),
                              <<"VirtualAllocEx">>)
    /\ UNCHANGED <<table, thrAlive, thrOwner, mem, prot, procs, panicked, pidSeen>>

region_drop(p) ==
    /\ Live(p)
    /\ region[p] = "live"
    /\ region' = [region EXCEPT ![p] = "released"]
    /\ panicked' = ~RegionCallOk(handle(p))
    /\ lastOp' = Call("region_drop", p,
                      IF RegionCallOk(handle(p)) THEN Ok(0)
                      ELSE Err("VirtualFreeEx failed"), <<"VirtualFreeEx">>)
    /\ UNCHANGED <<table, thrAlive, thrOwner, mem, prot, procs, pidSeen>>

\* ------------------------------------------------------------- environment
\* A thread other than the calling one exits; its process exits with its
\* last thread.
ThreadExit(t) ==
    /\ ~panicked
    /\ t # 1
    /\ thrAlive[t]
    /\ thrAlive' = [thrAlive EXCEPT ![t] = FALSE]
    /\ lastOp' = [op |-> "env"]
    /\ UNCHANGED <<table, thrOwner, mem, prot, procs, region, panicked, pidSeen>>

\* A foreign process exits: all its threads are gone at once.
ProcessExit(q) ==
    /\ ~panicked
    /\ q # SelfPid
    /\ Alive(q)
    /\ thrAlive' = [t \in ThreadIds |-> thrAlive[t] /\ thrOwner[t] # q]
    /\ lastOp' = [op |-> "env"]
    /\ UNCHANGED <<table, thrOwner, mem, prot, procs, region, panicked, pidSeen>>

\* A foreign process stores a byte in its own memory.
TargetStore(q, a, b) ==
    /\ ~panicked
    /\ q # SelfPid
    /\ Alive(q)
    /\ mem[q][a] # b
    /\ mem' = [mem EXCEPT ![q][a] = b]
    /\ lastOp' = [op |-> "env"]
    /\ UNCHANGED <<table, thrAlive, thrOwner, prot, procs, region, panicked, pidSeen>>

\* ------------------------------------------------------------ specifications
\* The OS before the caller has opened anything.  Thread 1 is the calling
\* thread; owners gives the other threads' processes.
InitOS(owners) ==
    /\ thrAlive = [t \in ThreadIds |-> TRUE]
    /\ thrOwner \in owners
    /\ mem = [p \in Pids |-> [a \in 1..MemSize |-> 0]]
    /\ prot = [p \in Pids |-> 4]
    /\ region = [p \in ProcIds |-> "none"]
    /\ lastOp = [op |-> "init"]
    /\ panicked = FALSE
    /\ pidSeen = [p \in ProcIds |-> <<>>]

ForeignThreads == {[t \in ThreadIds |-> IF t = 1 THEN SelfPid ELSE 2]}
AnyThreads == {f \in [ThreadIds -> Pids] : f[1] = SelfPid}

\* No Process constructed yet.
Init ==
    /\ InitOS(ForeignThreads)
    /\ table = [h \in HandleVals |-> Free]
    /\ procs = [p \in ProcIds |-> Unborn]

\* The state after Process 1 has been constructed by a successful
\* from_pid(q, access) on an existing process q (the OS handed out handle 1)
\* or by from_current().
Constructed ==
    \/ \E q \in Pids, access \in AccessMasks :
          /\ Alive(q)
          /\ table = [h \in HandleVals |->
                        IF h = 1 THEN [pid |-> q, access |-> access] ELSE Free]
          /\ procs = [p \in ProcIds |-> IF p = 1 THEN from_handle(1, "pid") ELSE Unborn]
    \/ /\ table = [h \in HandleVals |-> Free]
       /\ procs = [p \in ProcIds |->
                     IF p = 1 THEN from_handle(CurrentProcess, "current") ELSE Unborn]

\* The life cycle of Process values and of the regions borrowing them.
Next ==
    \/ \E p \in ProcIds, q \in Pids, a \in AccessMasks : from_pid(p, q, a)
    \/ \E p \in ProcIds : from_current(p)
    \/ \E p \in ProcIds : close(p)
    \/ \E p \in ProcIds : drop(p)
    \/ \E p \in ProcIds : pid(p)
    \/ \E p \in ProcIds : handle_call(p)
    \/ \E p \in ProcIds : allocate(p)
    \/ \E p \in ProcIds : region_drop(p)
    \/ \E q \in Pids : ProcessExit(q)

Spec == Init /\ [][Next]_vars

\* Reading and writing memory through a constructed Process, open or closed.
InitMem == InitOS(ForeignThreads) /\ Constructed

NextMem ==
    \/ \E p \in ProcIds : close(p)
    \/ \E p \in ProcIds, d \in Slices, a \in Addresses : write_memory(p, d, a)
    \/ \E p \in ProcIds, b \in Slices, a \in Addresses : read_memory(p, b, a)
    \/ \E q \in Pids, a \in 1..MemSize, b \in Bytes : TargetStore(q, a, b)
    \/ \E q \in Pids : ProcessExit(q)

SpecMem == InitMem /\ [][NextMem]_vars

\* Changing page protection through a constructed Process, open or closed.
NextProt ==
    \/ \E p \in ProcIds : close(p)
    \/ \E p \in ProcIds, a \in Addresses, n \in 0..MemSize, f \in Protections :
          virtual_protect(p, a, n, f)
    \/ \E q \in Pids : ProcessExit(q)

SpecProt == InitMem /\ [][NextProt]_vars

\* Thread discovery through a constructed Process, open or closed.
InitThreads == InitOS(AnyThreads) /\ Constructed

NextThreads ==
    \/ \E p \in ProcIds : close(p)
    \/ \E p \in ProcIds : pid(p)
    \/ \E p \in ProcIds : snapshot(p)
    \/ \E p \in ProcIds : main_thread(p)
    \/ \E t \in ThreadIds : ThreadExit(t)

SpecThreads == InitThreads /\ [][NextThreads]_vars

\* Every operation of one constructed Process, open or closed, while the
\* target may exit.
NextUse ==
    \/ \E p \in ProcIds : close(p)
    \/ \E p \in ProcIds : pid(p)
    \/ \E p \in ProcIds : snapshot(p)
    \/ \E p \in ProcIds : main_thread(p)
    \/ \E p \in ProcIds, d \in Slices, a \in Addresses : write_memory(p, d, a)
    \/ \E p \in ProcIds, b \in Slices, a \in Addresses : read_memory(p, b, a)
    \/ \E p \in ProcIds, a \in Addresses, n \in 0..MemSize, f \in Protections :
          virtual_protect(p, a, n, f)
    \/ \E q \in Pids : ProcessExit(q)

SpecUse == InitMem /\ [][NextUse]_vars

\* Every explicitly called operation and the scope exit, of a constructed
\* Process and of those further from_pid calls construct.  The memory calls
\* take the null address or the first mapped one, and no data or one zero
\* byte; virtual_protect asks for read-write protection of the first byte.
FailAddresses == {0, 1}
FailSlices == {<<>>, <<0>>}

NextFail ==
    \/ \E p \in ProcIds, q \in Pids, a \in AccessMasks : from_pid(p, q, a)
    \/ \E p \in ProcIds : close(p)
    \/ \E p \in ProcIds : drop(p)
    \/ \E p \in ProcIds : pid(p)
    \/ \E p \in ProcIds : snapshot(p)
    \/ \E p \in ProcIds : main_thread(p)
    \/ \E p \in ProcIds, d \in FailSlices, a \in FailAddresses : write_memory(p, d, a)
    \/ \E p \in ProcIds, b \in FailSlices, a \in FailAddresses : read_memory(p, b, a)
    \/ \E p \in ProcIds, a \in FailAddresses : virtual_protect(p, a, 1, 4)
    \/ \E q \in Pids : ProcessExit(q)

SpecFail == InitMem /\ [][NextFail]_vars

\* ------------------------------------------------------------------ claims
\* History: the CloseHandle calls issued through Process p so far, one per
\* explicit close() and one by its Drop.
CloseHandleCalls(p) ==
    procs[p].explicit + (IF procs[p].st = "dropped" THEN 1 ELSE 0)

\* The operations of a Process other than close.
OtherOps == {"pid", "snapshot", "main_thread", "write_memory", "read_memory",
             "virtual_protect", "handle"}

\* C1: for a Process obtained from a successful from_pid, after any number of
\* explicit close() calls followed by scope exit, CloseHandle has been issued
\* on its handle exactly once.
C1_ClosedExactlyOnce ==
    \A p \in ProcIds :
        (procs[p].origin = "pid" /\ procs[p].st = "dropped")
            => CloseHandleCalls(p) = 1

\* C2: once close() has succeeded on a Process, every later operation other
\* than close fails, and it makes no OS call with the closed handle.
C2_ClosedRejectsOperations ==
    (lastOp.op \in OtherOps /\ lastOp.closedBefore)
        => (~lastOp.res.ok /\ lastOp.calls = <<>>)

\* C3: a close() on a Process whose handle has already been closed returns an
\* error, never success.
C3_DoubleCloseRejected ==
    (lastOp.op = "close" /\ lastOp.closedBefore) => ~lastOp.res.ok

\* C4: while a region allocated against a Process is live, that Process's
\* handle has not been closed.
C4_NoCloseWhileRegionLive ==
    \A p \in ProcIds : region[p] = "live" => ~procs[p].closed

\* C5: the scope exit of a Process made by from_current issues no OS close
\* call on the pseudo-handle.
C5_CurrentNeedsNoRelease ==
    (lastOp.op = "drop" /\ procs[lastOp.proc].origin = "current")
        => lastOp.calls = <<>>

\* The messages of the null-address errors of write_memory and read_memory.
NullAddressErrors == {"Address to write to is null", "Address to read from is null"}

\* C6: read_memory and write_memory with address 0 fail with the null-address
\* (invalid argument) error and make no OS call, whatever the data or buffer
\* and whether the Process is open or closed.
C6_NullAddressRejected ==
    (lastOp.op \in {"write_memory", "read_memory"} /\ lastOp.addr = 0)
        => /\ ~lastOp.res.ok
           /\ lastOp.res.err \in NullAddressErrors
           /\ lastOp.calls = <<>>

\* A write_memory of non-empty data to address 0 through a closed Process.
C6_Witness ==
    /\ lastOp.op = "write_memory"
    /\ lastOp.addr = 0
    /\ lastOp.data # <<>>
    /\ lastOp.closedBefore
    /\ ~lastOp.res.ok

\* A read_memory on an open Process that immediately follows a write_memory of
\* data D by the same Process at the same non-zero address, which returned
\* Len(D), into a buffer of length Len(D).
ReadAfterWrite ==
    /\ lastOp.op = "read_memory"
    /\ lastOp.after # <<>>
    /\ ~lastOp.closedBefore

\* C7 as claimed: such a read_memory returns Len(D) and leaves the buffer
\* equal to D.
C7_RoundTrip ==
    ReadAfterWrite
        => /\ lastOp.res = Ok(Len(lastOp.after[1]))
           /\ lastOp.buf = lastOp.after[1]

\* C7 as amended: such a read_memory fails with "Buffer length is zero" when D
\* is empty; otherwise it either fails with "ReadProcessMemory failed", leaving
\* the buffer as it was, or returns a count n <= Len(D) with the first n bytes
\* of the buffer equal to those of D, so a returned Len(D) means buffer = D.
C7_RoundTripWhenReadSucceeds ==
    ReadAfterWrite
        => LET D == lastOp.after[1] IN
           IF D = <<>>
           THEN lastOp.res = Err("Buffer length is zero")
           ELSE \/ /\ lastOp.res = Err("ReadProcessMemory failed")
                   /\ lastOp.calls = <<"ReadProcessMemory">>
                \/ /\ lastOp.res.ok
                   /\ lastOp.res.val \in 0..Len(D)
                   /\ Len(lastOp.buf) = Len(D)
                   /\ \A i \in 1..lastOp.res.val : lastOp.buf[i] = D[i]
                   /\ lastOp.res.val = Len(D) => lastOp.buf = D

\* A full round trip of data that differs from the memory's initial bytes.
C7_Witness ==
    /\ ReadAfterWrite
    /\ lastOp.res = Ok(MaxLen)
    /\ lastOp.buf = lastOp.after[1]
    /\ \A i \in 1..MaxLen : lastOp.buf[i] = 1

Owned == {i \in 1..Len(lastOp.snap) : lastOp.snap[i].owner = lastOp.id}

\* C9: a main_thread that got its snapshot returns none exactly when no entry
\* of the snapshot is owned by the Process's pid; a thread it returns is the
\* first owned entry in enumeration order, all earlier entries belonging to
\* other processes; with an owned entry the only other outcome is the error of
\* opening it.  A main_thread that got no snapshot returns an error.
C9_MainThreadIsFirstOwned ==
    lastOp.op = "main_thread"
        => /\ lastOp.res.ok => lastOp.snapOk
           /\ lastOp.snapOk
                => /\ (lastOp.res = Ok(0)) <=> (Owned = {})
                   /\ (lastOp.res.ok /\ lastOp.res.val # 0)
                        => \E i \in Owned :
                              /\ lastOp.snap[i].tid = lastOp.res.val
                              /\ \A j \in 1..(i - 1) : lastOp.snap[j].owner # lastOp.id
                   /\ ~lastOp.res.ok => lastOp.res.err = "OpenThread returned NULL"

\* main_thread returned a thread after skipping another process's entry, and
\* a later entry of the same process was not taken.
C9_Witness ==
    /\ lastOp.op = "main_thread"
    /\ lastOp.res.ok
    /\ lastOp.res.val # 0
    /\ lastOp.snap[1].owner # lastOp.id
    /\ \E j \in Owned : lastOp.snap[j].tid > lastOp.res.val

\* The errors main_thread passes on from the pid lookup and the snapshot.
LookupErrors == {"GetProcessId returned NULL", "CreateToolhelp32Snapshot failed"}

\* C10 as claimed: main_thread on a Process whose target has no thread left
\* returns Ok(none), never an error.
C10_ZeroThreadsIsNone ==
    (lastOp.op = "main_thread" /\ lastOp.zeroThreads) => lastOp.res = Ok(0)

\* C10 as amended: main_thread on a Process whose target has no thread left
\* returns Ok(none) exactly when its pid lookups and the snapshot creation
\* succeed; otherwise it returns the error of the lookup that failed.
C10_ZeroThreadsNoneOrLookupError ==
    (lastOp.op = "main_thread" /\ lastOp.zeroThreads)
        => /\ lastOp.snapOk <=> (lastOp.res = Ok(0))
           /\ ~lastOp.snapOk => (~lastOp.res.ok /\ lastOp.res.err \in LookupErrors)

\* Ok(none) for an exited target, from a snapshot that lists other threads.
C10_Witness ==
    /\ lastOp.op = "main_thread"
    /\ lastOp.zeroThreads
    /\ lastOp.res = Ok(0)
    /\ Len(lastOp.snap) >= 2

\* C11: a from_pid on a process id the OS cannot open returns the error of
\* OpenProcess and constructs no Process, without a panic; no constructed
\* Process ever holds the null handle, and no close is ever issued for a
\* Process that was not constructed.
C11_FailedOpenConstructsNothing ==
    /\ (lastOp.op = "from_pid" /\ ~lastOp.res.ok)
          => /\ lastOp.res = Err("OpenProcess returned NULL")
             /\ procs[lastOp.proc] = Unborn
             /\ ~panicked
    /\ \A p \in ProcIds :
          /\ procs[p].st # "unborn" => procs[p].handle # NULL
          /\ procs[p].st = "unborn" => CloseHandleCalls(p) = 0

\* A from_pid on an exited process failed while another Process is in use.
C11_Witness ==
    /\ lastOp.op = "from_pid"
    /\ ~lastOp.res.ok
    /\ procs[lastOp.proc].st = "unborn"
    /\ \E p \in ProcIds : procs[p].st = "live"

\* C12: when WriteProcessMemory reports success, write_memory returns the
\* count the OS reported, also when it is less than data.len(); it returns the
\* error of the OS call exactly when the call was made and reported failure.
C12_WriteReturnsOsCount ==
    lastOp.op = "write_memory"
        => /\ (lastOp.os # <<>> /\ lastOp.os[1].ret # 0)
                => lastOp.res = Ok(lastOp.os[1].n)
           /\ (lastOp.res = Err("WriteProcessMemory failed"))
                <=> (lastOp.os # <<>> /\ lastOp.os[1].ret = 0)

\* A partial write: the OS reported success and fewer bytes than were given.
C12_Witness ==
    /\ lastOp.op = "write_memory"
    /\ lastOp.os # <<>>
    /\ lastOp.os[1].ret # 0
    /\ lastOp.os[1].n < Len(lastOp.data)
    /\ lastOp.res = Ok(lastOp.os[1].n)

\* The messages of read_memory's invalid-argument errors.
ReadArgumentErrors == {"Address to read from is null", "Buffer length is zero"}

\* C13: read_memory with an empty buffer fails with an invalid-argument error
\* and makes no OS call, at every address; with a non-zero address and a
\* non-empty buffer it makes one ReadProcessMemory call asking for
\* buffer.len() bytes, and returns the count the OS reported (at most
\* buffer.len()) when the call succeeds, its error when it fails.
C13_ReadChecksBufferThenReadsOnce ==
    lastOp.op = "read_memory"
        => /\ lastOp.len = 0
                => /\ ~lastOp.res.ok
                   /\ lastOp.res.err \in ReadArgumentErrors
                   /\ lastOp.addr # 0 => lastOp.res.err = "Buffer length is zero"
                   /\ lastOp.calls = <<>>
                   /\ lastOp.os = <<>>
           /\ (lastOp.addr # 0 /\ lastOp.len > 0)
                => /\ lastOp.calls = <<"ReadProcessMemory">>
                   /\ Len(lastOp.os) = 1
                   /\ lastOp.os[1].len = lastOp.len
                   /\ lastOp.os[1].n <= lastOp.len
                   /\ lastOp.res = IF lastOp.os[1].ret # 0 THEN Ok(lastOp.os[1].n)
                                    ELSE Err("ReadProcessMemory failed")

\* An empty buffer was rejected at a non-zero address of an open Process.
C13_Witness ==
    /\ lastOp.op = "read_memory"
    /\ lastOp.len = 0
    /\ lastOp.addr # 0
    /\ ~lastOp.closedBefore
    /\ lastOp.res = Err("Buffer length is zero")

\* C18: write_memory has no empty-input check: with a non-zero address and
\* empty data it still makes the WriteProcessMemory call, of length 0, and
\* returns what the OS reports; read_memory with an empty buffer at the same
\* address returns its error before any OS call.
C18_EmptyWriteReachesOs ==
    /\ (lastOp.op = "write_memory" /\ lastOp.addr # 0 /\ lastOp.data = <<>>)
          => /\ lastOp.calls = <<"WriteProcessMemory">>
             /\ Len(lastOp.os) = 1
             /\ lastOp.os[1].len = 0
             /\ lastOp.res = IF lastOp.os[1].ret # 0 THEN Ok(lastOp.os[1].n)
                              ELSE Err("WriteProcessMemory failed")
    /\ (lastOp.op = "read_memory" /\ lastOp.addr # 0 /\ lastOp.len = 0)
          => /\ lastOp.calls = <<>>
             /\ lastOp.res = Err("Buffer length is zero")

\* A write of empty data reached the OS and was reported as 0 bytes written.
C18_Witness ==
    /\ lastOp.op = "write_memory"
    /\ lastOp.addr # 0
    /\ lastOp.data = <<>>
    /\ lastOp.calls = <<"WriteProcessMemory">>
    /\ lastOp.res = Ok(0)

\* C17: when Thread::from_id fails on the first snapshot entry owned by the
\* Process's pid, main_thread returns that error: it has tried no later entry
\* and it does not return none.
C17_OpenFailureReturnedAtOnce ==
    (lastOp.op = "main_thread" /\ lastOp.opens # <<>> /\ ~lastOp.opens[1].ok)
        => /\ lastOp.res = Err("OpenThread returned NULL")
           /\ Len(lastOp.opens) = 1
           /\ \E i \in Owned :
                 /\ lastOp.snap[i].tid = lastOp.opens[1].tid
                 /\ \A j \in Owned : j >= i

\* The first owned entry could not be opened and a later entry of the same
\* process was in the snapshot.
C17_Witness ==
    /\ lastOp.op = "main_thread"
    /\ lastOp.opens # <<>>
    /\ ~lastOp.opens[1].ok
    /\ ~lastOp.res.ok
    /\ \E j \in Owned : lastOp.snap[j].tid > lastOp.opens[1].tid

\* The operations a caller calls explicitly.
ExplicitOps == {"from_pid", "close", "pid", "snapshot", "main_thread",
                "read_memory", "write_memory", "virtual_protect"}

\* C14: a scope exit whose close fails terminates the program by a panic, and
\* one whose close succeeds does not; every explicitly called operation leaves
\* the program running, its failure being the error value it returns; the
\* program is never terminated by anything but a scope exit.
C14_OnlyDropFailureIsFatal ==
    /\ lastOp.op = "drop" => (panicked <=> ~lastOp.res.ok)
    /\ lastOp.op \in ExplicitOps => ~panicked
    /\ panicked => lastOp.op = "drop"

\* The scope exit of a Process from from_pid whose close failed: a panic.
C14_Witness ==
    /\ lastOp.op = "drop"
    /\ procs[lastOp.proc].origin = "pid"
    /\ lastOp.res = Err("CloseHandle failed")
    /\ panicked

\* C15: on a Process whose handle has not been closed, a pid() call returns
\* what the first pid() call returned, whatever calls of pid, snapshot,
\* main_thread, read_memory, write_memory and virtual_protect came in between
\* and whether or not the target has exited.
C15_PidIsStable ==
    (lastOp.op = "pid" /\ lastOp.first # <<>> /\ ~lastOp.closedBefore)
        => lastOp.res = lastOp.first[1].res

\* A second pid() returned the same id, after other calls, for a target that
\* has exited in between.
C15_Witness ==
    /\ lastOp.op = "pid"
    /\ ~lastOp.closedBefore
    /\ lastOp.first # <<>>
    /\ lastOp.first[1].between
    /\ lastOp.res.ok
    /\ lastOp.res = lastOp.first[1].res
    /\ ~Alive(lastOp.res.val)

\* The operations that only use the handle.
UsingOps == {"pid", "snapshot", "main_thread", "read_memory", "write_memory",
             "virtual_protect"}

\* C16: a call of pid, snapshot, main_thread, read_memory, write_memory or
\* virtual_protect, successful or not, leaves every Process value as it was:
\* the stored handle, whether the value exists, and whether its handle has
\* been closed; it opens and closes no handle.
C16_UsingLeavesProcessUnchanged ==
    [][lastOp'.op \in UsingOps
         => /\ \A p \in ProcIds :
                  /\ procs'[p].handle = procs[p].handle
                  /\ procs'[p].st = procs[p].st
                  /\ procs'[p].closed = procs[p].closed
            /\ table' = table]_vars

\* A failed virtual_protect on a closed Process that still stores its handle.
C16_Witness ==
    /\ lastOp.op = "virtual_protect"
    /\ ~lastOp.res.ok
    /\ lastOp.closedBefore
    /\ procs[lastOp.proc].closed
    /\ procs[lastOp.proc].st = "live"
    /\ procs[lastOp.proc].handle # NULL


=============================================================================
